---- MODULE Spec2Model ----
(***************************************************************************)
(* Model of helper.py, the generator of the Rust lookup table              *)
(* U8_TO_ARRAY_BOOL.  Text is a string: Len counts its characters, \o      *)
(* concatenates and SubSeq slices, so s[:-2] and s[:-1] act on characters. *)
(* A run of the script is a record; `run` maps each run of the script to   *)
(* its record, so that one run (Spec) and two runs stepped side by side    *)
(* (TwinSpec) share the same actions.                                      *)
(***************************************************************************)
EXTENDS Integers, Sequences, FiniteSets

VARIABLES run, turn

vars == <<run, turn>>

(* ------------------------------ text ---------------------------------- *)

\* helper.py:3, the string literal s starts from
Prefix ==
    "const U8_TO_ARRAY_BOOL: [[bool; 8]; 256] = ["

\* helper.py:5
OpenLit == "["

\* Mutant of FalseLit: the "true, " of line 10 copied into line 8.
FalseLitCopied == "true, "

\* helper.py:8
FalseLit == "false, "

\* helper.py:10
TrueLit == "true, "

\* helper.py:12
CloseEntryLit == "], "

\* helper.py:14
CloseTableLit == "];"

\* helper.py:16, the end print() writes after its argument
Newline == "\n"

\* Mutant of RangeStop: range(255).
RangeStopShort == 256 - 1

\* helper.py:4, range(256)
RangeStop == 256

\* helper.py:6, the width handed to np.binary_repr
Width == 8

\* Mutant of EntryTrim: s[:-3].
EntryTrimThree == 2 + 1

\* helper.py:12, s[:-2]
EntryTrim == 2

\* helper.py:14, s[:-1]
FinalTrim == 1

\* Python's str[j - 1]: the character at position j, from 1.
Char(str, j) == SubSeq(str, j, j)

\* Python's str[:-k] for k > 0: all but the last k characters, the empty
\* string when there are not that many.
DropLast(str, k) ==
    SubSeq(str, 1, IF Len(str) >= k THEN Len(str) - k ELSE 0)

\* bin(num)[2:] for num >= 0: the binary digits, most significant first, "0"
\* for zero.
RECURSIVE Bin(_)
Bin(num) ==
    IF num < 2
    THEN (IF num = 0 THEN "0" ELSE "1")
    ELSE Bin(num \div 2) \o (IF num % 2 = 0 THEN "0" ELSE "1")

\* str.zfill(w): left-padded with "0" to at least w characters.
RECURSIVE ZFill(_, _)
ZFill(str, w) ==
    IF Len(str) >= w THEN str ELSE ZFill("0" \o str, w)

\* Mutant of BinaryRepr: np.binary_repr(num), the width left out.
BinaryReprNoPad(num, width) == Bin(num)

\* The binary digits of num, least significant first.
RECURSIVE BinLsb(_)
BinLsb(num) ==
    IF num < 2
    THEN (IF num = 0 THEN "0" ELSE "1")
    ELSE (IF num % 2 = 0 THEN "0" ELSE "1") \o BinLsb(num \div 2)

\* Zeros appended to str up to w characters.
RECURSIVE PadRight(_, _)
PadRight(str, w) ==
    IF Len(str) >= w THEN str ELSE PadRight(str \o "0", w)

\* Mutant of BinaryRepr: the digits in the opposite order.
BinaryReprLsbFirst(num, width) == PadRight(BinLsb(num), width)

\* np.binary_repr(num, width) for num >= 0:
\*   binary = bin(num)[2:]; outwidth = max(len(binary), width);
\*   return binary.zfill(outwidth)
BinaryRepr(num, width) ==
    LET binary == Bin(num)
        outwidth == IF Len(binary) > width THEN Len(binary) ELSE width
    IN  ZFill(binary, outwidth)

(* ------------------------------ state --------------------------------- *)

\* Mutant of InitRun: range(1, 256), byte 0 skipped.
InitRunFromOne ==
    [pc |-> "L3", s |-> "", n |-> -1, nit |-> 1, bits |-> "", i |-> 0,
     c |-> "", outer |-> 0, inner |-> 0, out |-> <<>>]

\* The state of one run before line 3 executes.  n and c are not bound yet
\* (-1 and "" stand for that); nit is the next value range(256) yields, bits
\* and i are the string the inner loop iterates and the place in it; outer
\* and inner count the loop bodies entered; out is standard output, one
\* element per call of print.
InitRun ==
    [pc |-> "L3", s |-> "", n |-> -1, nit |-> 0, bits |-> "", i |-> 0,
     c |-> "", outer |-> 0, inner |-> 0, out |-> <<>>]

\* The runs of the script the model can hold: one, or two side by side.
Runs == {1, 2}

\* One run of the script.
Init ==
    /\ run = [r \in {1} |-> InitRun]
    /\ turn = 1

\* Two independent runs of the script.
TwinInit ==
    /\ run = [r \in Runs |-> InitRun]
    /\ turn = 1

\* Runs are stepped side by side: each in turn takes one step.
NextTurn(r) == IF r + 1 \in DOMAIN run THEN r + 1 ELSE 1

Set(r, st) ==
    /\ run' = [run EXCEPT ![r] = st]
    /\ turn' = NextTurn(r)

(* ----------------------------- actions -------------------------------- *)

\* Run r is the one to step, and stands at the statement of this line.
At(r, label) == r \in DOMAIN run /\ turn = r /\ run[r].pc = label

\* Mutant of Assign: s is kept from the run before and extended.
AssignKeepsOld(r) ==
    /\ At(r, "L3")
    /\ Set(r, [run[r] EXCEPT
                  !.s = (IF r - 1 \in DOMAIN run THEN run[r - 1].s ELSE "")
                            \o Prefix,
                  !.pc = "L4"])

\* line 3: s = "const U8_TO_ARRAY_BOOL: [[bool; 8]; 256] = ["
Assign(r) ==
    /\ At(r, "L3")
    /\ Set(r, [run[r] EXCEPT !.s = Prefix, !.pc = "L4"])

\* Mutant of ForNext: the values in descending order, reversed(range(256)).
ForNextDescending(r) ==
    /\ At(r, "L4")
    /\ run[r].nit < RangeStop
    /\ Set(r, [run[r] EXCEPT !.n = RangeStop - 1 - run[r].nit, !.nit = @ + 1,
                             !.outer = @ + 1, !.pc = "L5"])

\* line 4: for n in range(256), the next value
ForNext(r) ==
    /\ At(r, "L4")
    /\ run[r].nit < RangeStop
    /\ Set(r, [run[r] EXCEPT !.n = run[r].nit, !.nit = @ + 1,
                             !.outer = @ + 1, !.pc = "L5"])

\* line 4: range(256) is exhausted
ForExit(r) ==
    /\ At(r, "L4")
    /\ run[r].nit >= RangeStop
    /\ Set(r, [run[r] EXCEPT !.pc = "L14"])

\* line 5: s += "["
OpenEntry(r) ==
    /\ At(r, "L5")
    /\ Set(r, [run[r] EXCEPT !.s = @ \o OpenLit, !.pc = "L6"])

\* line 6: the iterable np.binary_repr(n, 8) is evaluated once
CallBinaryRepr(r) ==
    /\ At(r, "L6")
    /\ Set(r, [run[r] EXCEPT !.bits = BinaryRepr(run[r].n, Width),
                             !.i = 0, !.inner = 0, !.pc = "L6i"])

\* line 6: for c in <bits>, the next character
InnerNext(r) ==
    /\ At(r, "L6i")
    /\ run[r].i < Len(run[r].bits)
    /\ Set(r, [run[r] EXCEPT !.c = Char(run[r].bits, run[r].i + 1), !.i = @ + 1,
                             !.inner = @ + 1, !.pc = "L7"])

\* line 6: the string is exhausted
InnerExit(r) ==
    /\ At(r, "L6i")
    /\ run[r].i >= Len(run[r].bits)
    /\ Set(r, [run[r] EXCEPT !.pc = "L12"])

\* lines 7-8: if c == "0": s += "false, "
AppendFalse(r) ==
    /\ At(r, "L7")
    /\ run[r].c = "0"
    /\ Set(r, [run[r] EXCEPT !.s = @ \o FalseLit, !.pc = "L6i"])

\* lines 9-10: else: s += "true, "
AppendTrue(r) ==
    /\ At(r, "L7")
    /\ run[r].c # "0"
    /\ Set(r, [run[r] EXCEPT !.s = @ \o TrueLit, !.pc = "L6i"])

\* Mutant of CloseEntry: s += "], ", the trim left out.
CloseEntryNoTrim(r) ==
    /\ At(r, "L12")
    /\ Set(r, [run[r] EXCEPT !.s = @ \o CloseEntryLit, !.pc = "L4"])

\* line 12: s = s[:-2] + "], "
CloseEntry(r) ==
    /\ At(r, "L12")
    /\ Set(r, [run[r] EXCEPT !.s = DropLast(@, EntryTrim) \o CloseEntryLit,
                             !.pc = "L4"])

\* line 14: s = s[:-1] + "];"
CloseTable(r) ==
    /\ At(r, "L14")
    /\ Set(r, [run[r] EXCEPT !.s = DropLast(@, FinalTrim) \o CloseTableLit,
                             !.pc = "L16"])

\* line 16: print(s)
PrintS(r) ==
    /\ At(r, "L16")
    /\ Set(r, [run[r] EXCEPT !.out = Append(@, run[r].s \o Newline),
                             !.pc = "done"])

Next ==
    \E r \in Runs :
    \/ Assign(r)
    \/ ForNext(r)
    \/ ForExit(r)
    \/ OpenEntry(r)
    \/ CallBinaryRepr(r)
    \/ InnerNext(r)
    \/ InnerExit(r)
    \/ AppendFalse(r)
    \/ AppendTrue(r)
    \/ CloseEntry(r)
    \/ CloseTable(r)
    \/ PrintS(r)

Spec == Init /\ [][Next]_vars

\* The interpreter runs the script to its end: a step that can be taken is
\* taken.
FairSpec == Init /\ [][Next]_vars /\ WF_vars(Next)

TwinSpec == TwinInit /\ [][Next]_vars

(* ------------------- reading the generated text ----------------------- *)

\* The literal lit stands in str at position j.
IsAt(str, j, lit) ==
    /\ j >= 1
    /\ j + Len(lit) - 1 <= Len(str)
    /\ SubSeq(str, j, j + Len(lit) - 1) = lit

\* The first position >= j where lit stands in str, 0 when there is none.
Find(str, lit, j) ==
    IF \E q \in j..Len(str) : IsAt(str, q, lit)
    THEN CHOOSE q \in j..Len(str) :
             IsAt(str, q, lit) /\ \A d \in j..(q - 1) : ~IsAt(str, d, lit)
    ELSE 0

\* The last position where lit stands in str, 0 when there is none.
FindLast(str, lit) ==
    IF \E d \in 0..(Len(str) - 1) : IsAt(str, Len(str) - d, lit)
    THEN Len(str) - (CHOOSE d \in 0..(Len(str) - 1) :
                         /\ IsAt(str, Len(str) - d, lit)
                         /\ \A d2 \in 0..(d - 1) : ~IsAt(str, Len(str) - d2, lit))
    ELSE 0

\* The positions a..b where lit stands in str, in ascending order.
Places(str, lit, a, b) ==
    LET Here(j) == IsAt(str, j, lit)
    IN  SelectSeq([x \in 1..(b - a + 1) |-> a + x - 1], Here)

\* The declaration the table literal follows: name, type and " = ".
Decl ==
    "const U8_TO_ARRAY_BOOL: [[bool; 8]; 256] = "

\* The bracketed entries of the text str: after the declaration and the
\* outer "[", each runs from a "[" to the first "]" after it (0 when there
\* is none).  The places <<from, to>> of the two brackets, in order.
Entries(str) ==
    IF ~IsAt(str, 1, Decl \o "[") THEN <<>>
    ELSE LET opens == Places(str, "[", Len(Decl) + 2, Len(str))
         IN  [k \in 1..Len(opens) |->
                  <<opens[k], Find(str, "]", opens[k] + 1)>>]

\* The last bracketed entry of the text str, <<0, 0>> when it has none.
LastEntry(str) ==
    LET p == FindLast(str, "[")
    IN  IF p <= Len(Decl) + 1 THEN <<0, 0>>
        ELSE <<p, Find(str, "]", p + 1)>>

\* The text between the brackets of entry e.
Body(str, e) == SubSeq(str, e[1] + 1, e[2] - 1)

\* The elements of entry e: its body cut at every ", ".
Elements(str, e) ==
    LET seps == Places(str, ", ", e[1] + 1, e[2] - 1)
        m == Len(seps)
    IN  [x \in 1..(m + 1) |->
             SubSeq(str, IF x = 1 THEN e[1] + 1 ELSE seps[x - 1] + 2,
                         IF x = m + 1 THEN e[2] - 1 ELSE seps[x] - 1)]

TrueTok == "true"
FalseTok == "false"

\* Entry e is a sequence of the tokens true and false.
WellFormed(str, e) ==
    \A x \in 1..Len(Elements(str, e)) :
        Elements(str, e)[x] \in {TrueTok, FalseTok}

\* The booleans of entry e.
Bools(str, e) ==
    LET el == Elements(str, e)
    IN  [x \in 1..Len(el) |-> el[x] = TrueTok]

\* What follows the last entry of str.
Trailer(str) ==
    LET e == LastEntry(str)
    IN  SubSeq(str, e[2] + 1, Len(str))

\* Bit b of n.
Bit(n, b) == (n \div 2^b) % 2

\* The bits of n, most significant of eight first.
BitSeq(n) == [x \in 1..8 |-> Bit(n, 8 - x) = 1]

\* The eight binary digits of n, most significant first.
Digit(n, b) == IF Bit(n, b) = 1 THEN "1" ELSE "0"

Digits(n) ==
    Digit(n, 7) \o Digit(n, 6) \o Digit(n, 5) \o Digit(n, 4)
        \o Digit(n, 3) \o Digit(n, 2) \o Digit(n, 1) \o Digit(n, 0)

\* A sequence b of eight booleans read as binary digits: true as 1, false
\* as 0.
Reading(b) ==
    LET D(x) == IF b[x] THEN "1" ELSE "0"
    IN  D(1) \o D(2) \o D(3) \o D(4) \o D(5) \o D(6) \o D(7) \o D(8)

\* A run has printed its text.
Printed(r) == run[r].pc = "done" /\ Len(run[r].out) = 1

\* The text a run printed, without the newline print() ends it with.
PrintedText(r) == DropLast(run[r].out[1], 1)

\* The outer iteration for byte n of run r has just completed.
EntryDone(r) == run[r].pc = "L4" /\ run[r].outer >= 1

(* ------------------------------ claims -------------------------------- *)

\* C1: for every byte value n and every position i in 0..7, element i of the
\* boolean sequence generated for n is true iff bit (7-i) of n is 1; read as
\* binary digits (true as 1, false as 0) the sequence is the zero-padded
\* 8-bit binary representation of n.  Stated where the outer iteration for n
\* has just completed, of the entry it appended.
C1_BitsOfN ==
    \A r \in DOMAIN run :
        EntryDone(r) =>
            LET e == LastEntry(run[r].s)
                b == Bools(run[r].s, e)
            IN  /\ e[1] > 0 /\ e[2] > 0
                /\ WellFormed(run[r].s, e)
                /\ Len(b) = 8
                /\ \A i \in 0..7 : b[i + 1] <=> (Bit(run[r].n, 7 - i) = 1)
                /\ Reading(b) = Digits(run[r].n)

\* C1 witness: the iteration for a byte with both kinds of bit has completed.
C1_Witness ==
    \E r \in DOMAIN run : EntryDone(r) /\ run[r].n = 166
\* C2: the printed table has exactly 256 bracketed entries, and every entry
\* has exactly 8 elements, each one of the tokens true and false.
C2_Shape ==
    \A r \in DOMAIN run :
        Printed(r) =>
            LET t == PrintedText(r)
                es == Entries(t)
            IN  /\ Len(es) = 256
                /\ \A k \in 1..Len(es) :
                       /\ es[k][2] > 0
                       /\ Len(Elements(t, es[k])) = 8
                       /\ WellFormed(t, es[k])

\* C2 witness: a table of bracketed entries has been printed.
C2_Witness ==
    \E r \in DOMAIN run : Printed(r) /\ Len(Entries(PrintedText(r))) > 0

\* C3: in the printed text the 256 entries are separated by ", " and the
\* last entry's "]" is immediately followed by the closing "];", with which
\* the text ends.
C3_NoTrailingSeparator ==
    \A r \in DOMAIN run :
        Printed(r) =>
            LET t == PrintedText(r)
                es == Entries(t)
            IN  /\ Len(es) = 256
                /\ \A k \in 1..(Len(es) - 1) :
                       SubSeq(t, es[k][2] + 1, es[k + 1][1] - 1) = ", "
                /\ Trailer(t) = "];"

\* C4: the entries appear in ascending order of byte value: the k-th entry
\* of the printed table (from 0) is the bit sequence of byte value k.
C4_AscendingOrder ==
    \A r \in DOMAIN run :
        Printed(r) =>
            LET t == PrintedText(r)
                es == Entries(t)
            IN  /\ Len(es) = 256
                /\ \A k \in 0..255 : Bools(t, es[k + 1]) = BitSeq(k)

\* C4 witness: the text is printed after the loop yielded all 256 values.
C4_Witness ==
    \E r \in DOMAIN run : Printed(r) /\ run[r].outer = 256 /\ run[r].n = 255

\* C5: the entry for byte 1 is seven false then true, and the entry for
\* byte 128 is true then seven false.
C5_Boundaries ==
    \A r \in DOMAIN run :
        Printed(r) =>
            LET t == PrintedText(r)
                es == Entries(t)
            IN  /\ Len(es) > 128
                /\ Bools(t, es[1 + 1])
                       = <<FALSE, FALSE, FALSE, FALSE, FALSE, FALSE, FALSE, TRUE>>
                /\ Bools(t, es[128 + 1])
                       = <<TRUE, FALSE, FALSE, FALSE, FALSE, FALSE, FALSE, FALSE>>

\* C5 witness: the printed table has an entry for byte 1 and one for byte 128.
C5_Witness ==
    \E r \in DOMAIN run :
        /\ Printed(r)
        /\ Len(Entries(PrintedText(r))) > 128
        /\ Entries(PrintedText(r))[129][2] > 0
        /\ Entries(PrintedText(r))[2][2] > 0

AllFalse == [x \in 1..8 |-> FALSE]
AllTrue == [x \in 1..8 |-> TRUE]

\* C6: the entry for byte 0 is eight false values, the entry for byte 255 is
\* eight true values, and no other byte value has either of these entries.
C6_Extremes ==
    \A r \in DOMAIN run :
        Printed(r) =>
            LET t == PrintedText(r)
                es == Entries(t)
            IN  /\ Len(es) = 256
                /\ \A k \in 0..255 :
                       /\ (Bools(t, es[k + 1]) = AllFalse) <=> (k = 0)
                       /\ (Bools(t, es[k + 1]) = AllTrue) <=> (k = 255)

\* C6 witness: the printed table starts with an all-false entry and ends
\* with an all-true one.
C6_Witness ==
    \E r \in DOMAIN run :
        /\ Printed(r)
        /\ Bools(PrintedText(r), Entries(PrintedText(r))[1]) = AllFalse
        /\ Bools(PrintedText(r), LastEntry(PrintedText(r))) = AllTrue
CountsOf(r) ==
    /\ run[r].pc = "L12" => run[r].inner = 8
    /\ run[r].pc \in {"L14", "L16", "done"} => run[r].outer = 256
    /\ Len(run[r].out) <= 1
    /\ run[r].pc = "done" => Len(run[r].out) = 1
    /\ Len(run[r].out) = 1 =>
           /\ run[r].pc = "done"
           /\ run[r].out[1] = run[r].s \o "\n"
           /\ Len(Entries(run[r].s)) = 256
           /\ IsAt(run[r].s, Len(run[r].s) - 1, "];")

\* C8: the run always terminates and is never stuck before its end; the
\* outer loop executes exactly 256 iterations, each inner loop exactly 8, and
\* the text is written to standard output exactly once, only after all 256
\* entries are assembled and the closing "];" is appended.
C8_Terminates ==
    /\ <>(\A r \in DOMAIN run : run[r].pc = "done")
    /\ [](\A r \in DOMAIN run : CountsOf(r))
    /\ []((\E r \in DOMAIN run : run[r].pc # "done") => ENABLED Next)

\* C8 witness: the run is over, with its text on standard output.
C8_Witness ==
    \E r \in DOMAIN run :
        run[r].pc = "done" /\ run[r].out = <<run[r].s \o "\n">>

\* The inner loop of run r is over and line 12 is about to trim.
AtTrim(r) == run[r].pc = "L12"

\* C9: within every entry the 8 elements are separated by ", " and the last
\* element is immediately followed by "]": the trim of line 12 removes
\* exactly the ", " appended after the eighth element, never part of a
\* token.
C9_EntryTrim ==
    /\ [](\A r \in DOMAIN run :
            /\ AtTrim(r) =>
                   \/ IsAt(run[r].s, Len(run[r].s) - 5, "true, ")
                   \/ IsAt(run[r].s, Len(run[r].s) - 6, "false, ")
            /\ EntryDone(r) =>
                   LET e == LastEntry(run[r].s)
                       el == Elements(run[r].s, e)
                   IN  /\ e[2] > 0
                       /\ Len(el) = 8
                       /\ \A x \in 1..8 : el[x] \in {TrueTok, FalseTok}
                       /\ Char(run[r].s, e[2] - 1) = "e")
    /\ [][\A r \in DOMAIN run :
            (AtTrim(r) /\ run'[r] # run[r]) =>
                /\ IsAt(run'[r].s, Len(run'[r].s) - 2, "], ")
                /\ run[r].s = DropLast(run'[r].s, 3) \o ", "]_vars

\* C9 witness: an entry has been trimmed and closed.
C9_Witness ==
    \E r \in DOMAIN run :
        EntryDone(r) /\ IsAt(run[r].s, Len(run[r].s) - 3, "e], ")

Tok(b) == IF b THEN TrueTok ELSE FalseTok

\* The 256 complete entries, without what terminates them: "[" and eight
\* tokens separated by ", ".
CompleteEntries ==
    { "[" \o Tok(b[1]) \o ", " \o Tok(b[2]) \o ", " \o Tok(b[3]) \o ", "
          \o Tok(b[4]) \o ", " \o Tok(b[5]) \o ", " \o Tok(b[6]) \o ", "
          \o Tok(b[7]) \o ", " \o Tok(b[8]) : b \in [1..8 -> BOOLEAN] }

\* str is pre followed by exactly m complete entries, each terminated by
\* "], ", and nothing else.
IsPrefixAndEntries(str, pre, m) ==
    /\ IsAt(str, 1, pre)
    /\ LET ends == Places(str, "], ", Len(pre) + 1, Len(str))
       IN  /\ Len(ends) = m
           /\ IF m = 0 THEN Len(str) = Len(pre)
              ELSE ends[m] + 2 = Len(str)
           /\ \A k \in 1..m :
                  SubSeq(str, IF k = 1 THEN Len(pre) + 1 ELSE ends[k - 1] + 3,
                              ends[k] - 1) \in CompleteEntries

\* The fixed prefix s starts with.
FixedPrefix == "const U8_TO_ARRAY_BOOL: [[bool; 8]; 256] = ["

\* C10: after the outer iteration for byte value n completes, s is the fixed
\* prefix followed by exactly n+1 complete entries each terminated by "], ";
\* and no step alters the prefix or a completed entry: a step removes at
\* most the characters of a trailing ", ".
C10_LoopInvariant ==
    /\ [](\A r \in DOMAIN run :
            EntryDone(r) =>
                IsPrefixAndEntries(run[r].s, FixedPrefix, run[r].n + 1))
    /\ [][\A r \in DOMAIN run :
            IsAt(run[r].s, 1, FixedPrefix) =>
                \E k \in 0..2 :
                    /\ Len(run[r].s) >= Len(FixedPrefix) + k
                    /\ (k > 0) => IsAt(run[r].s, Len(run[r].s) - 1, ", ")
                    /\ IsAt(run'[r].s, 1, DropLast(run[r].s, k))]_vars

\* C10 witness: the iteration for byte 255 has completed, with 256 entries.
C10_Witness ==
    \E r \in DOMAIN run :
        /\ EntryDone(r)
        /\ run[r].n = 255
        /\ Len(Places(run[r].s, "], ", Len(FixedPrefix) + 1, Len(run[r].s)))
               = 256

====
